---- MODULE Spec2Model ----
(***************************************************************************)
(* A model of the dependency-graph resolution engine of fsm:              *)
(*   graph.Node        contents, incoming, outgoing; preorder, postorder,  *)
(*                     postorder_yield, __len__                            *)
(*   graph.RecursionLimit   the scoped recursion-limit context manager     *)
(*   pkg.Package       the payload carried by the nodes                    *)
(*   repo.Repo         the index of packages by name                       *)
(*   resolver.Resolver resolve and available                               *)
(* The recursive helpers _preorder/_postorder are modelled frame by frame: *)
(* `stack` is the Python call stack of the helper, one record per active   *)
(* call, holding the node and the position of its `for o in s.outgoing`.   *)
(***************************************************************************)
EXTENDS Integers, Sequences, FiniteSets, TLC

(***************************************************************************)
(* Bounds of the model.                                                    *)
(***************************************************************************)
NumNodes == 3
MaxEdges == 3
\* The recursion limit of the runs that exhaust it.
LowLimit == 1
\* The longest list a repository is built from, and the largest version
\* and url of a package.
MaxPackages == 2
MaxVersion == 1
MaxUrl == 1
MaxNameLen == 1
\* The largest value of an attribute and the longest list of an object in
\* a transaction.
MaxValue == 1
MaxItems == 2

Nodes == 1..NumNodes

(***************************************************************************)
(* Python values.                                                          *)
(***************************************************************************)
\* sys.getrecursionlimit() of a fresh interpreter.
DefaultRecursionLimit == 1000

\* RecursionLimit.revert = None.  A recursion limit is an int >= 1, so 0
\* stands for None here; both are falsy for `if self.revert`.
NoRevert == 0

\* The default value of the `limit` parameter.
DefaultLimit == -1

\* Version.versionless = Version(0, 0, 0), the default version of a Package.
Versionless == 0

\* Package.defaults: url = "".
EmptyUrl == 0

\* None, as the value of a version or a url.
NoneField == -1

\* A Package object: its identity (oid) and its fields; dependencies is
\* the list of the names it depends on.
MkPackage(o, n, v, u, d) ==
    [oid |-> o, name |-> n, version |-> v, url |-> u, dependencies |-> d]

\* Package(name=n): the other fields take Package.defaults.
DefaultPackage(o, n) == MkPackage(o, n, Versionless, EmptyUrl, <<>>)

\* Python's None where a Package may stand (dict.get of a missing key).
NonePackage == [oid |-> 0, name |-> 0, version |-> 0, url |-> 0, dependencies |-> <<>>]

\* bool(x) for x a Package or None: Package defines neither __bool__ nor
\* __len__, so every Package is truthy, and None is falsy.
Truthy(x) == x # NonePackage

\* a == b for two Package objects.  Package defines neither __eq__ nor
\* __hash__, so Python falls back on object identity.
PyEq(a, b) == a.oid = b.oid

\* c in seen, for a Python list seen.
InList(c, lst) == \E i \in 1..Len(lst) : PyEq(lst[i], c)

\* The visitors the program passes: Resolver.resolve's identity and the
\* builtin id (the default of preorder/postorder, and what __len__ passes).
Visitors == {"identity", "id"}

\* id(c) is an int that names the object c; it is kept in the shape of a
\* Package so that a results list is homogeneous.
IdOf(c) == [oid |-> c.oid, name |-> 0, version |-> 0, url |-> 0, dependencies |-> <<>>]

Visit(visitor, c) == IF visitor = "identity" THEN c ELSE IdOf(c)

(***************************************************************************)
(* State.                                                                  *)
(***************************************************************************)
VARIABLES
    contents,   \* Node._contents, per node
    incoming,   \* Node._incoming, per node
    outgoing,   \* Node._outgoing, per node, as the sequence in which the set iterates
    rlimit,     \* sys.getrecursionlimit()
    pc,         \* where the current call is: idle, run, suspended, check, returned, raised
    call,       \* the current call: its method and arguments
    revert,     \* RecursionLimit.revert of the current call
    stack,      \* active calls of the recursive helper
    seen,       \* the seen list of the current call
    results,    \* the results list of the current call
    retval,     \* what the call returned
    packages,   \* the list the repository was built from
    index,      \* Repo.index
    checked,    \* the packages Repo.__contains__ was asked about by the current call
    answer,     \* the outcome of the last `package in repo`
    kwargs,     \* the keyword arguments of Package(name=..)
    made,       \* the __dict__ of the Package that was constructed
    warned,     \* the messages given to warnings.warn, in order
    failure,    \* the message of the AssertionError that was raised
    check_versions, \* Resolver.check_versions of the resolver in use
    lhs,        \* the Version on the left of a comparison
    rhs,        \* the Version on the right of a comparison
    ordering,   \* what the comparisons of lhs and rhs gave
    peer,       \* the call of a second caller, while the first one runs
    txn,        \* a Transaction: its argument, self.o, self.before and where it is
    heap,       \* the list objects that exist, by reference
    entry,      \* the state of the wrapped object when the with block was entered
    given       \* the list a caller passes as `seen`, and what its calls emitted

graph == <<contents, incoming, outgoing>>
repo == <<packages, index>>
traversal == <<stack, seen, results>>
construction == <<kwargs, made, warned, failure>>
\* What the graph, repository and traversal operations leave alone.
comparison == <<lhs, rhs, ordering>>
transaction == <<txn, heap, entry>>
aside == <<construction, check_versions, comparison, peer, transaction, given>>
\* What the other operations leave alone.
resolution ==
    <<graph, repo, rlimit, pc, call, revert, traversal, retval, checked, answer>>
vars == <<contents, incoming, outgoing, rlimit, pc, call, revert, stack, seen, results,
          retval, packages, index, checked, answer, kwargs, made, warned, failure,
          check_versions, lhs, rhs, ordering, peer, txn, heap, entry, given>>

(***************************************************************************)
(* Graphs.                                                                 *)
(***************************************************************************)
\* The sequences that list the elements of S once each: the orders in which
\* a Python set holding S may iterate.
Orders(S) ==
    {q \in [1..Cardinality(S) -> S] : \A i, j \in 1..Cardinality(S) : q[i] = q[j] => i = j}

EdgeSets == {E \in SUBSET (Nodes \X Nodes) : Cardinality(E) <= MaxEdges}

Out(E, n) == {m \in Nodes : <<n, m>> \in E}
In(E, n) == {m \in Nodes : <<m, n>> \in E}

\* Every way the outgoing sets of the graph with edges E may iterate.
Iterations(E) ==
    {f \in [Nodes -> UNION {Orders(Out(E, n)) : n \in Nodes}] :
        \A n \in Nodes : f[n] \in Orders(Out(E, n))}

Range(q) == {q[i] : i \in 1..Len(q)}

\* The packages of a graph whose nodes carry pairwise distinct packages
\* with pairwise distinct names.
DistinctContents == [n \in Nodes |-> DefaultPackage(n, n)]

\* The same, but two nodes carry the very same Package object.
SharedContents == [DistinctContents EXCEPT ![2] = DistinctContents[1]]

\* The same, but two nodes carry two Package objects with equal fields.
TwinContents == [DistinctContents EXCEPT ![2] = DefaultPackage(NumNodes + 1, 1)]

\* A well-formed graph (incoming mirrors outgoing) with the contents c.
InitGraph(c) ==
    /\ contents = c
    /\ \E E \in EdgeSets :
        /\ incoming = [n \in Nodes |-> In(E, n)]
        /\ outgoing \in Iterations(E)

(***************************************************************************)
(* Repo.                                                                   *)
(***************************************************************************)
Names == 1..NumNodes

\* The dict without keys; a name that is no key is mapped to None, which
\* is what index.get answers for it.
EmptyIndex == [n \in Names |-> NonePackage]

\* {p.name: p for p in packages}: the comprehension takes the packages in
\* list order and stores each under its name.
RECURSIVE IndexOf(_, _)
IndexOf(pkgs, idx) ==
    IF pkgs = <<>>
    THEN idx
    ELSE IndexOf(Tail(pkgs), [idx EXCEPT ![Head(pkgs).name] = Head(pkgs)])

\* A variant that keeps the package a name was first stored with.
RECURSIVE IndexKeepFirst(_, _)
IndexKeepFirst(pkgs, idx) ==
    IF pkgs = <<>>
    THEN idx
    ELSE IndexKeepFirst(Tail(pkgs),
            IF Truthy(idx[Head(pkgs).name])
            THEN idx
            ELSE [idx EXCEPT ![Head(pkgs).name] = Head(pkgs)])

RepoIndexKeepFirst(pkgs) == IndexKeepFirst(pkgs, EmptyIndex)

\* self.index = {p.name: p for p in packages} if packages else {}
RepoIndex(pkgs) == IF pkgs # <<>> THEN IndexOf(pkgs, EmptyIndex) ELSE EmptyIndex

\* self.index.get(name)
Get(idx, name) == idx[name]

\* A variant that asks for the very package.
ContainsExact(idx, package) == Get(idx, package.name) = package

\* Repo.__contains__, as `package in repo` evaluates it: the value returned
\* by __contains__ is converted to bool.
Contains(idx, package) == Truthy(Get(idx, package.name))

(***************************************************************************)
(* Calls.                                                                  *)
(***************************************************************************)
NoCall ==
    [op |-> "none", root |-> 1, visitor |-> "id", limit |-> DefaultLimit,
     before |-> 0, caller |-> "none"]

\* The value of a call that has not returned, a list, None, and an int.
Unset == [kind |-> "unset", val |-> <<>>]
ListVal(q) == [kind |-> "list", val |-> q]
NoneVal == [kind |-> "None", val |-> <<>>]
IntVal(n) == [kind |-> "int", val |-> n]

InitCall ==
    /\ pc = "idle"
    /\ call = NoCall
    /\ revert = NoRevert
    /\ stack = <<>>
    /\ seen = <<>>
    /\ results = <<>>
    /\ retval = Unset
    /\ checked = <<>>
    /\ answer = FALSE

\* Repo(): the empty repository.
InitRepo ==
    /\ packages = <<>>
    /\ index = RepoIndex(<<>>)

\* No package has been constructed through Package(name=..).
NoKwargs == [k \in {} |-> 0]
NoInstance == [k \in {} |-> 0]
NoFailure == "none"

InitConstruction ==
    /\ kwargs = NoKwargs
    /\ made = NoInstance
    /\ warned = <<>>
    /\ failure = NoFailure

\* The class attribute Resolver.check_versions.
InitResolver == check_versions = FALSE

\* Version(major, minor, patch); prerelease and build are left at None.
VersionOf(major, minor, patch) == [major |-> major, minor |-> minor, patch |-> patch]

\* No comparison has been made.
NotCompared == [done |-> FALSE, lt |-> FALSE, gt |-> FALSE, tl |-> FALSE]

\* Version.versionless on both sides.
InitComparison ==
    /\ lhs = VersionOf(0, 0, 0)
    /\ rhs = VersionOf(0, 0, 0)
    /\ ordering = NotCompared

\* What belongs to one caller: where its call is, the arguments and the
\* locals of the call, and what it returned.
Context(p, c, r, st, sn, res, rv) ==
    [pc |-> p, call |-> c, revert |-> r, stack |-> st, seen |-> sn, results |-> res,
     retval |-> rv]

\* The second caller has called nothing.
InitPeer == peer = Context("idle", NoCall, NoRevert, <<>>, <<>>, <<>>, Unset)

\* The objects a Transaction is given.  A list is held by reference, and
\* so is the list an object keeps in its attribute `items`; an object that
\* is no list holds NoRef.
Refs == {"list"}
NoRef == "none"
NoneObject == [kind |-> "None", value |-> 0, items |-> NoRef]
IntObject(n) == [kind |-> "int", value |-> n, items |-> NoRef]
ListObject(ref) == [kind |-> "list", value |-> 0, items |-> ref]
\* An object with a rollback method, an attribute `value` and an attribute
\* `items`.
StateObject(v, ref) == [kind |-> "object", value |-> v, items |-> ref]

\* No Transaction has been made.
NoTransaction ==
    [phase |-> "none", arg |-> NoneObject, o |-> NoneObject, before |-> NoneObject,
     rollbacks |-> 0]

\* The attributes of an object, the elements of its list in place of the
\* reference.
Deep(obj, h) ==
    [kind |-> obj.kind, value |-> obj.value,
     items |-> IF obj.items = NoRef THEN <<>> ELSE h[obj.items]]

InitTransaction ==
    /\ txn = NoTransaction
    /\ heap = [r \in Refs |-> <<>>]
    /\ entry = Deep(NoneObject, heap)

\* The list S a caller passes as `seen`.  While the list a call works on is
\* S itself (shared), its elements are those of seen; else they are kept
\* here.  prior is S as it was when the call started, emitted the payloads
\* that earlier calls with S returned.
GivenList(S) == [passed |-> FALSE, shared |-> FALSE, list |-> S, prior |-> S, emitted |-> {}]

InitGiven == given = GivenList(<<>>)

InitAside ==
    /\ InitConstruction
    /\ InitResolver
    /\ InitComparison
    /\ InitPeer
    /\ InitTransaction
    /\ InitGiven

Init ==
    /\ InitGraph(DistinctContents)
    /\ rlimit = DefaultRecursionLimit
    /\ InitCall
    /\ InitRepo
    /\ InitAside

(***************************************************************************)
(* RecursionLimit.                                                         *)
(***************************************************************************)
\* RecursionLimit.__enter__: the new recursion limit and the value of revert.
EnterLimit(cur, limit) == IF cur < limit THEN limit ELSE cur
EnterRevert(cur, limit) == IF cur < limit THEN cur ELSE NoRevert

\* A variant that leaves the limit as it finds it.
ExitLimitKeep(cur, rev) == cur

\* RecursionLimit.__exit__: the recursion limit it leaves.
ExitLimit(cur, rev) == IF rev # NoRevert THEN rev ELSE cur

(***************************************************************************)
(* The recursive helpers.                                                  *)
(***************************************************************************)
\* A variant without the seen test.
UnseenAlways(c, sn) == TRUE

\* `not s.contents in seen`
Unseen(c, sn) == ~InList(c, sn)

Top == stack[Len(stack)]

Frame(s) == [node |-> s, i |-> 1]

\* What a call of the helper on node s does before its loop.
\*   _preorder:  seen.append; results.append(visitor(...))
\*   _postorder: seen.append
SeenAfterEnter(s, sn) == IF Unseen(contents[s], sn) THEN Append(sn, contents[s]) ELSE sn

\* A variant that applies the visitor first in every traversal.
ResultsAfterEnterVisitFirst(op, visitor, s, sn, res) ==
    IF Unseen(contents[s], sn)
    THEN Append(res, Visit(visitor, contents[s]))
    ELSE res

\* A variant that puts the result of the visitor at the front of the list.
ResultsAfterEnterAtFront(op, visitor, s, sn, res) ==
    IF op = "preorder" /\ Unseen(contents[s], sn)
    THEN <<Visit(visitor, contents[s])>> \o res
    ELSE res

ResultsAfterEnter(op, visitor, s, sn, res) ==
    IF op = "preorder" /\ Unseen(contents[s], sn)
    THEN Append(res, Visit(visitor, contents[s]))
    ELSE res

\* A variant that goes into the node whether or not its payload was seen.
StackAfterEnterAlways(s, sn, st) == Append(st, Frame(s))

StackAfterEnter(s, sn, st) == IF Unseen(contents[s], sn) THEN Append(st, Frame(s)) ELSE st

\* The loop of the innermost call moves on to its next element.
Advance(st) == [st EXCEPT ![Len(st)].i = @ + 1]

\* What the helper does after its loop, when it is the call for node s.
\*   _postorder of postorder: results.append(visitor(s.contents))
\*   _postorder of postorder_yield: return visitor(s.contents); only the
\*   value returned by the outermost call reaches the caller.
\* A variant that puts the result at the front of the list.
ResultsAfterLoopAtFront(op, visitor, s, depth, res) ==
    CASE op = "postorder" -> <<Visit(visitor, contents[s])>> \o res
      [] op = "postorder_yield" -> IF depth = 1 THEN <<Visit(visitor, contents[s])>> ELSE res
      [] OTHER -> res

ResultsAfterLoop(op, visitor, s, depth, res) ==
    CASE op = "postorder" -> Append(res, Visit(visitor, contents[s]))
      [] op = "postorder_yield" -> IF depth = 1 THEN <<Visit(visitor, contents[s])>> ELSE res
      [] OTHER -> res

(***************************************************************************)
(* Operations of Node.                                                     *)
(***************************************************************************)
\* A call starts: `with RecursionLimit(limit=limit)` is entered and the
\* helper is called on the root with an empty seen list.  caller is the
\* method that was called: preorder, postorder, postorder_yield, or
\* available, which calls postorder through resolve.
\* A variant that goes on with the list the caller's last call left.
SeenOrListKept(last) == last

\* `seen or list()`, and the list() of preorder: no seen list is passed, so
\* the call starts with a list of its own, whatever the caller's last call
\* left.
SeenOrList(last) == <<>>

Begin(caller, op, root, visitor, limit) ==
    /\ pc \in {"idle", "returned", "raised"}
    /\ call' = [op |-> op, root |-> root, visitor |-> visitor, limit |-> limit,
                before |-> rlimit, caller |-> caller]
    /\ rlimit' = EnterLimit(rlimit, limit)
    /\ revert' = EnterRevert(rlimit, limit)
    /\ seen' = SeenAfterEnter(root, SeenOrList(seen))
    /\ results' = ResultsAfterEnter(op, visitor, root, SeenOrList(seen), <<>>)
    /\ stack' = StackAfterEnter(root, SeenOrList(seen), <<>>)
    /\ pc' = "run"
    /\ retval' = Unset
    /\ checked' = <<>>
    /\ UNCHANGED <<graph, repo, answer, aside>>

Preorder(root, visitor, limit) == Begin("preorder", "preorder", root, visitor, limit)

Postorder(root, visitor, limit) == Begin("postorder", "postorder", root, visitor, limit)

PostorderYield(root, visitor, limit) ==
    Begin("postorder_yield", "postorder_yield", root, visitor, limit)

\* len(root) is len(root.preorder(id)).
NodeLen(root) == Begin("len", "preorder", root, "id", DefaultLimit)

\* Resolver.resolve(root) is root.postorder(visitor=identity).
Resolve(root) == Postorder(root, "identity", DefaultLimit)

\* A variant whose loop takes the nodes out of the outgoing set as it goes.
DescendRemoving ==
    /\ pc = "run"
    /\ stack # <<>>
    /\ Top.i <= Len(outgoing[Top.node])
    /\ Len(stack) < rlimit
    /\ LET o == outgoing[Top.node][Top.i]
       IN  /\ seen' = SeenAfterEnter(o, seen)
           /\ results' = ResultsAfterEnter(call.op, call.visitor, o, seen, results)
           /\ stack' = StackAfterEnter(o, seen, stack)
           /\ outgoing' = [outgoing EXCEPT ![Top.node] =
                              SubSeq(@, 1, Top.i - 1) \o SubSeq(@, Top.i + 1, Len(@))]
    /\ UNCHANGED <<contents, incoming, repo, rlimit, pc, call, revert, retval, checked,
                   answer, aside>>

\* `for o in s.outgoing: helper(o, ...)`: the next iteration of the loop of
\* the innermost call.  The call of the helper needs a stack frame.
Descend ==
    /\ pc = "run"
    /\ stack # <<>>
    /\ Top.i <= Len(outgoing[Top.node])
    /\ Len(stack) < rlimit
    /\ LET o == outgoing[Top.node][Top.i]
       IN  /\ seen' = SeenAfterEnter(o, seen)
           /\ results' = ResultsAfterEnter(call.op, call.visitor, o, seen, results)
           /\ stack' = StackAfterEnter(o, seen, Advance(stack))
    /\ UNCHANGED <<graph, repo, rlimit, pc, call, revert, retval, checked, answer, aside>>

\* The call of the helper would exceed the recursion limit: RecursionError
\* is raised and propagates through every active call; the `with` block is
\* left by the exception, and the method raises.
Overflow ==
    /\ pc = "run"
    /\ stack # <<>>
    /\ Top.i <= Len(outgoing[Top.node])
    /\ Len(stack) >= rlimit
    /\ stack' = <<>>
    /\ pc' = "raised"
    /\ rlimit' = ExitLimit(rlimit, revert)
    /\ UNCHANGED <<graph, repo, call, revert, seen, results, retval, checked, answer, aside>>

\* The loop of the innermost call is over: the call finishes.  When it is
\* the outermost call, the `with` block is left and the method returns; the
\* generator of postorder_yield is suspended at its yield instead, and
\* available goes on to check the packages.
Finish ==
    /\ pc = "run"
    /\ stack # <<>>
    /\ Top.i > Len(outgoing[Top.node])
    /\ LET res == ResultsAfterLoop(call.op, call.visitor, Top.node, Len(stack), results)
       IN  /\ results' = res
           /\ stack' = SubSeq(stack, 1, Len(stack) - 1)
           /\ IF Len(stack) > 1
              THEN UNCHANGED <<pc, rlimit, retval>>
              ELSE IF call.caller = "postorder_yield"
                   THEN /\ pc' = "suspended"
                        /\ UNCHANGED <<rlimit, retval>>
                   ELSE IF call.caller = "available"
                   THEN /\ pc' = "check"
                        /\ rlimit' = ExitLimit(rlimit, revert)
                        /\ UNCHANGED retval
                   ELSE /\ pc' = "returned"
                        /\ rlimit' = ExitLimit(rlimit, revert)
                        /\ retval' = IF call.caller = "len"
                                      THEN IntVal(Len(res))
                                      ELSE ListVal(res)
    /\ UNCHANGED <<graph, repo, call, revert, seen, checked, answer, aside>>

\* The generator is resumed after its only yield: the `with` block is left
\* and the iteration stops.  list(root.postorder_yield(...)) is the list of
\* the values yielded.
Exhaust ==
    /\ pc = "suspended"
    /\ pc' = "returned"
    /\ rlimit' = ExitLimit(rlimit, revert)
    /\ retval' = ListVal(results)
    /\ UNCHANGED <<graph, repo, call, revert, stack, seen, results, checked, answer, aside>>

Next ==
    \/ \E root \in Nodes, visitor \in Visitors : Preorder(root, visitor, DefaultLimit)
    \/ \E root \in Nodes, visitor \in Visitors : Postorder(root, visitor, DefaultLimit)
    \/ \E root \in Nodes, visitor \in Visitors : PostorderYield(root, visitor, DefaultLimit)
    \/ \E root \in Nodes : Resolve(root)
    \/ Descend
    \/ Finish
    \/ Exhaust

Spec == Init /\ [][Next]_vars

(***************************************************************************)
(* preorder and resolve, run on by the interpreter: a loop that has a next *)
(* element takes it, and a call whose loop is over finishes.               *)
(***************************************************************************)
NextTraverse ==
    \/ \E root \in Nodes : Preorder(root, "identity", DefaultLimit)
    \/ \E root \in Nodes : Resolve(root)
    \/ Descend
    \/ Finish

FairSpec == Init /\ [][NextTraverse]_vars /\ WF_vars(Descend) /\ WF_vars(Finish)

(***************************************************************************)
(* Graphs in which two nodes may carry equal packages, or two packages     *)
(* with the same fields.                                                   *)
(***************************************************************************)
InitPayload ==
    /\ \E c \in {DistinctContents, SharedContents, TwinContents} : InitGraph(c)
    /\ rlimit = DefaultRecursionLimit
    /\ InitCall
    /\ InitRepo
    /\ InitAside

NextPayload ==
    \/ \E root \in Nodes : Resolve(root)
    \/ Descend
    \/ Finish

SpecPayload == InitPayload /\ [][NextPayload]_vars

(***************************************************************************)
(* Nodes built without contents.  Node() and Node.make() carry None, and   *)
(* None equals None.                                                       *)
(***************************************************************************)
\* Nodes 1 and 2 are built without contents, the others carry a package.
DefaultContents ==
    [n \in Nodes |-> IF n <= 2 THEN NonePackage ELSE DefaultPackage(n, n)]

InitSize ==
    /\ InitGraph(DefaultContents)
    /\ rlimit = DefaultRecursionLimit
    /\ InitCall
    /\ InitRepo
    /\ InitAside

NextSize ==
    \/ \E root \in Nodes : NodeLen(root)
    \/ \E root \in Nodes, visitor \in Visitors : Preorder(root, visitor, DefaultLimit)
    \/ \E root \in Nodes, visitor \in Visitors : Postorder(root, visitor, DefaultLimit)
    \/ \E root \in Nodes : Resolve(root)
    \/ Descend
    \/ Finish

SpecSize == InitSize /\ [][NextSize]_vars

(***************************************************************************)
(* Traversals with a limit, under a recursion limit they can exhaust.      *)
(***************************************************************************)
Limits == {DefaultLimit} \cup ((LowLimit - 1)..(LowLimit + 1))

InitLimit ==
    /\ InitGraph(DistinctContents)
    /\ rlimit = LowLimit
    /\ InitCall
    /\ InitRepo
    /\ InitAside

NextLimit ==
    \/ \E root \in Nodes, limit \in Limits : Preorder(root, "identity", limit)
    \/ \E root \in Nodes, limit \in Limits : Postorder(root, "identity", limit)
    \/ Descend
    \/ Overflow
    \/ Finish

SpecLimit == InitLimit /\ [][NextLimit]_vars

(***************************************************************************)
(* Repo and Resolver.available.                                            *)
(***************************************************************************)
\* Repo(packages).  The repository is built once, before it is used, and
\* is only read afterwards.
RepoNew(pkgs) ==
    /\ pc = "idle"
    /\ packages = <<>>
    /\ checked = <<>>
    /\ packages' = pkgs
    /\ index' = RepoIndex(pkgs)
    /\ checked' = <<>>
    /\ UNCHANGED <<graph, rlimit, pc, call, revert, traversal, retval, answer, aside>>

\* Repo.make(packages): Repo(packages) if packages else Repo(), and Repo()
\* is Repo(None), whose index is the empty one of Repo([]).
RepoMake(pkgs) == IF pkgs # <<>> THEN RepoNew(pkgs) ELSE RepoNew(<<>>)

\* `package in repo`, asked by a caller of the repository.  __contains__
\* changes nothing, so the answer to a question does not depend on the
\* questions before it: a run asks one.
RepoContains(package) ==
    /\ pc = "idle"
    /\ checked = <<>>
    /\ checked' = <<package>>
    /\ answer' = Contains(index, package)
    /\ UNCHANGED <<graph, repo, rlimit, pc, call, revert, traversal, retval, aside>>

\* Resolver.available(root, r), r being the repository: it starts with
\* Resolver.resolve(root).
Available(root) == Begin("available", "postorder", root, "identity", DefaultLimit)

\* all(p in r for p in ...): the next package of the resolved list is
\* looked up.  all() stops at the first falsy element and is False; its
\* value is dropped and available returns None.
AvailableCheck ==
    /\ pc = "check"
    /\ Len(checked) < Len(results)
    /\ LET p == results[Len(checked) + 1]
       IN  /\ checked' = Append(checked, p)
           /\ answer' = Contains(index, p)
           /\ IF Contains(index, p)
              THEN UNCHANGED <<pc, retval>>
              ELSE pc' = "returned" /\ retval' = NoneVal
    /\ UNCHANGED <<graph, repo, rlimit, call, revert, traversal, aside>>

\* The resolved list is exhausted: all() is True; its value is dropped and
\* available returns None.
AvailableReturn ==
    /\ pc = "check"
    /\ Len(checked) = Len(results)
    /\ pc' = "returned"
    /\ retval' = NoneVal
    /\ UNCHANGED <<graph, repo, rlimit, call, revert, traversal, checked, answer, aside>>

\* The elements of S in increasing order.
RECURSIVE Sorted(_)
Sorted(S) ==
    IF S = {}
    THEN <<>>
    ELSE LET m == CHOOSE x \in S : \A y \in S : x <= y
         IN  <<m>> \o Sorted(S \ {m})

\* The lists of packages of the graph a repository is built from.
GraphLists == {[i \in 1..Cardinality(S) |-> contents[Sorted(S)[i]]] : S \in SUBSET Nodes}

NextAvail ==
    \/ \E pkgs \in GraphLists : RepoNew(pkgs)
    \/ \E root \in Nodes : Available(root)
    \/ Descend
    \/ Finish
    \/ AvailableCheck
    \/ AvailableReturn

SpecAvail == Init /\ [][NextAvail]_vars

\* The packages a repository is built from: every name at every version.
Versions == 0..MaxVersion
Urls == 0..MaxUrl
DependencyLists == {<<>>, <<1>>}

ListPool ==
    {MkPackage(n + NumNodes * v, n, v, EmptyUrl, <<>>) : n \in Names, v \in Versions}

\* The packages a repository is asked about.
QueryPool ==
    {MkPackage(n + NumNodes * (v + (MaxVersion + 1) * (u + (MaxUrl + 1) * Len(d))), n, v, u, d) :
        n \in Names, v \in Versions, u \in Urls, d \in DependencyLists}

PackageLists == UNION {[1..k -> ListPool] : k \in 0..MaxPackages}

\* A graph without edges.
InitRepoSpec ==
    /\ contents = DistinctContents
    /\ incoming = [n \in Nodes |-> {}]
    /\ outgoing = [n \in Nodes |-> <<>>]
    /\ rlimit = DefaultRecursionLimit
    /\ InitCall
    /\ InitRepo
    /\ InitAside

\* The guards of the constructors and of the question are stated ahead of
\* the lists and packages they range over.
NextRepo ==
    \/ packages = <<>> /\ checked = <<>> /\ \E pkgs \in PackageLists : RepoNew(pkgs)
    \/ packages = <<>> /\ checked = <<>> /\ \E pkgs \in PackageLists : RepoMake(pkgs)
    \/ checked = <<>> /\ \E package \in QueryPool : RepoContains(package)

SpecRepo == InitRepoSpec /\ [][NextRepo]_vars

(***************************************************************************)
(* Two callers of Resolver.resolve on one graph.  Each caller has its own  *)
(* call; the interpreter runs one of them at a time and may switch to the  *)
(* other between any two steps.  The recursion limit belongs to the        *)
(* process, the rest to the caller.                                        *)
(***************************************************************************)
Switch ==
    /\ peer' = Context(pc, call, revert, stack, seen, results, retval)
    /\ pc' = peer.pc
    /\ call' = peer.call
    /\ revert' = peer.revert
    /\ stack' = peer.stack
    /\ seen' = peer.seen
    /\ results' = peer.results
    /\ retval' = peer.retval
    /\ UNCHANGED <<graph, repo, rlimit, checked, answer, construction, check_versions,
                   comparison, transaction, given>>

NextTwo ==
    \/ \E root \in Nodes : Resolve(root)
    \/ Descend
    \/ Finish
    \/ Switch

\* The graphs with fewer than MaxEdges edges.
InitTwo ==
    /\ contents = DistinctContents
    /\ \E E \in EdgeSets :
        /\ Cardinality(E) < MaxEdges
        /\ incoming = [n \in Nodes |-> In(E, n)]
        /\ outgoing \in Iterations(E)
    /\ rlimit = DefaultRecursionLimit
    /\ InitCall
    /\ InitRepo
    /\ InitAside

SpecTwo == InitTwo /\ [][NextTwo]_vars

\* Two callers, each of one traversal with a limit above the recursion
\* limit of the process, which is LowLimit when they start.
RaisedLimits == (LowLimit + 1)..(LowLimit + 2)

InitTwoLimits ==
    /\ contents = DistinctContents
    /\ \E E \in EdgeSets :
        /\ Cardinality(E) < MaxEdges
        /\ incoming = [n \in Nodes |-> In(E, n)]
        /\ outgoing \in Iterations(E)
    /\ rlimit = LowLimit
    /\ InitCall
    /\ InitRepo
    /\ InitAside

NextTwoLimits ==
    \/ pc = "idle" /\ \E root \in Nodes, limit \in RaisedLimits :
                         Preorder(root, "identity", limit)
    \/ Descend
    \/ Overflow
    \/ Finish
    \/ Switch

SpecTwoLimits == InitTwoLimits /\ [][NextTwoLimits]_vars

(***************************************************************************)
(* Every traversal and the repository together.                            *)
(***************************************************************************)
\* The lists a repository is built from: no package, and the payloads of
\* all nodes.
PayloadLists == {<<>>, [i \in 1..NumNodes |-> contents[i]]}

NextAll ==
    \/ packages = <<>> /\ \E pkgs \in PayloadLists : RepoNew(pkgs)
    \/ \E root \in Nodes : NodeLen(root)
    \/ \E root \in Nodes : Preorder(root, "identity", DefaultLimit)
    \/ \E root \in Nodes : Postorder(root, "id", DefaultLimit)
    \/ \E root \in Nodes : PostorderYield(root, "identity", DefaultLimit)
    \/ \E root \in Nodes : Resolve(root)
    \/ \E root \in Nodes : Available(root)
    \/ Descend
    \/ Finish
    \/ Exhaust
    \/ AvailableCheck
    \/ AvailableReturn

SpecAll == InitTwo /\ [][NextAll]_vars

(***************************************************************************)
(* postorder and postorder_yield with the list of the caller as `seen`.    *)
(***************************************************************************)
\* The elements of the caller's list.
CallerList == IF given.shared THEN seen ELSE given.list

\* `seen or list()`: the list passed when it is truthy, that is non-empty,
\* and a new list otherwise.
SharesSeen(S) == S # <<>>

\* The payloads in a list of results; None is no payload of a node here.
PayloadsOf(q) == {q[i].oid : i \in 1..Len(q)} \ {NonePackage.oid}

\* root.postorder(visitor, seen=S) and root.postorder_yield(visitor, seen=S).
\* When the payload of the root is in S the helper returns at once:
\* postorder returns the empty results list, the generator yields the None
\* its helper returned.
BeginSeen(op, root, visitor, limit) ==
    /\ pc \in {"idle", "returned", "raised"}
    /\ LET S == CallerList
           skipped == ~Unseen(contents[root], S)
       IN  /\ call' = [op |-> op, root |-> root, visitor |-> visitor, limit |-> limit,
                       before |-> rlimit, caller |-> op]
           /\ revert' = EnterRevert(rlimit, limit)
           /\ seen' = SeenAfterEnter(root, S)
           /\ stack' = StackAfterEnter(root, S, <<>>)
           /\ results' = IF skipped /\ op = "postorder_yield"
                         THEN <<NonePackage>>
                         ELSE ResultsAfterEnter(op, visitor, root, S, <<>>)
           /\ pc' = IF ~skipped THEN "run"
                    ELSE IF op = "postorder_yield" THEN "suspended" ELSE "returned"
           /\ rlimit' = IF skipped /\ op = "postorder"
                        THEN ExitLimit(EnterLimit(rlimit, limit), EnterRevert(rlimit, limit))
                        ELSE EnterLimit(rlimit, limit)
           /\ retval' = IF skipped /\ op = "postorder" THEN ListVal(<<>>) ELSE Unset
           /\ given' = [passed |-> TRUE, shared |-> SharesSeen(S), list |-> S, prior |-> S,
                        emitted |-> given.emitted \cup PayloadsOf(retval.val)]
    /\ checked' = <<>>
    /\ UNCHANGED <<graph, repo, answer, construction, check_versions, comparison, peer,
                   transaction>>

PostorderSeen(root, visitor, limit) == BeginSeen("postorder", root, visitor, limit)

PostorderYieldSeen(root, visitor, limit) == BeginSeen("postorder_yield", root, visitor, limit)

\* The lists the caller starts with: the empty list, and a list of one
\* payload.
SeenLists == {<<>>} \cup {<<contents[n]>> : n \in Nodes}

InitSeen ==
    /\ contents = DistinctContents
    /\ \E E \in EdgeSets :
        /\ Cardinality(E) < MaxEdges
        /\ incoming = [n \in Nodes |-> In(E, n)]
        /\ outgoing \in Iterations(E)
    /\ rlimit = DefaultRecursionLimit
    /\ InitCall
    /\ InitRepo
    /\ InitConstruction
    /\ InitResolver
    /\ InitComparison
    /\ InitPeer
    /\ InitTransaction
    /\ \E S \in SeenLists : given = GivenList(S)

NextSeen ==
    \/ \E root \in Nodes : PostorderSeen(root, "identity", DefaultLimit)
    \/ \E root \in Nodes : PostorderYieldSeen(root, "identity", DefaultLimit)
    \/ Descend
    \/ Finish
    \/ Exhaust

SpecSeen == InitSeen /\ [][NextSeen]_vars

(***************************************************************************)
(* Transaction.                                                            *)
(***************************************************************************)
Values == 0..MaxValue
ItemLists == UNION {[1..k -> Values] : k \in 0..MaxItems}

\* bool(o), as `if o:` evaluates it.
TruthyObject(obj, h) ==
    CASE obj.kind = "None" -> FALSE
      [] obj.kind = "int" -> obj.value # 0
      [] obj.kind = "list" -> Len(h[obj.items]) > 0
      [] OTHER -> TRUE

\* copy.copy(obj): a new object with the attributes of obj; the list in
\* `items` is the same list.  The copy of an int is the int, the copy of a
\* list is a new list, which the model does not tell from its original as
\* nothing changes a list that is wrapped itself.
Copy(obj, h) == [kind |-> obj.kind, value |-> obj.value, items |-> obj.items]

\* Transaction(o): `if o:` is the test, and rollback is the method of the
\* wrapped object, of which the model keeps the number of calls.
TransactionNew(o) ==
    /\ txn.phase = "none"
    /\ txn' = IF TruthyObject(o, heap)
              THEN [txn EXCEPT !.phase = "made", !.arg = o, !.o = o]
              ELSE [txn EXCEPT !.phase = "ValueError", !.arg = o]
    /\ UNCHANGED <<heap, entry>>
    /\ UNCHANGED <<resolution, construction, check_versions, comparison, peer, given>>

\* __enter__
TransactionEnter ==
    /\ txn.phase = "made"
    /\ txn' = [txn EXCEPT !.phase = "entered", !.before = Copy(txn.o, heap)]
    /\ entry' = Deep(txn.o, heap)
    /\ UNCHANGED heap
    /\ UNCHANGED <<resolution, construction, check_versions, comparison, peer, given>>

\* The body of the with block assigns to the attribute `value` of o, which
\* is the object the transaction wraps.
BodyAssign(v) ==
    /\ txn.phase = "entered"
    /\ txn.o.kind = "object"
    /\ txn' = [txn EXCEPT !.o.value = v]
    /\ UNCHANGED <<heap, entry>>
    /\ UNCHANGED <<resolution, construction, check_versions, comparison, peer, given>>

\* The body appends to the list o keeps in `items`.
BodyAppend(v) ==
    /\ txn.phase = "entered"
    /\ txn.o.kind = "object"
    /\ Len(heap[txn.o.items]) < MaxItems
    /\ heap' = [heap EXCEPT ![txn.o.items] = Append(@, v)]
    /\ UNCHANGED <<txn, entry>>
    /\ UNCHANGED <<resolution, construction, check_versions, comparison, peer, given>>

\* The body raises: __exit__ with an exception.  o.rollback() raises
\* AttributeError on an object without the method, in place of the
\* exception of the body; else __exit__ returns False and the exception of
\* the body propagates.
BodyRaise ==
    /\ txn.phase = "entered"
    /\ txn' = IF txn.o.kind = "object"
              THEN [txn EXCEPT !.phase = "propagated", !.rollbacks = @ + 1,
                               !.o = Copy(txn.before, heap)]
              ELSE [txn EXCEPT !.phase = "AttributeError"]
    /\ UNCHANGED <<heap, entry>>
    /\ UNCHANGED <<resolution, construction, check_versions, comparison, peer, given>>

\* The body completes: __exit__ without an exception.
BodyReturn ==
    /\ txn.phase = "entered"
    /\ txn' = [txn EXCEPT !.phase = "completed"]
    /\ UNCHANGED <<heap, entry>>
    /\ UNCHANGED <<resolution, construction, check_versions, comparison, peer, given>>

\* The objects a Transaction is made for.
Objects ==
    {NoneObject} \cup {IntObject(n) : n \in Values}
        \cup {ListObject(r) : r \in Refs}
        \cup {StateObject(v, r) : v \in Values, r \in Refs}

InitTransactions ==
    /\ contents = DistinctContents
    /\ incoming = [n \in Nodes |-> {}]
    /\ outgoing = [n \in Nodes |-> <<>>]
    /\ rlimit = DefaultRecursionLimit
    /\ InitCall
    /\ InitRepo
    /\ InitConstruction
    /\ InitResolver
    /\ InitComparison
    /\ InitPeer
    /\ txn = NoTransaction
    /\ heap \in [Refs -> ItemLists]
    /\ entry = Deep(NoneObject, heap)
    /\ InitGiven

NextTransaction ==
    \/ \E o \in Objects : TransactionNew(o)
    \/ TransactionEnter
    \/ \E v \in Values : BodyAssign(v)
    \/ \E v \in Values : BodyAppend(v)
    \/ BodyRaise
    \/ BodyReturn

SpecTransaction == InitTransactions /\ [][NextTransaction]_vars

(***************************************************************************)
(* Version and its comparisons.                                            *)
(***************************************************************************)
VersionTriples ==
    {VersionOf(major, minor, patch) : major \in Versions, minor \in Versions, patch \in Versions}

\* Version.__lt__
VersionLt(self, other) ==
    self.major < other.major \/ self.minor < other.minor \/ self.patch < other.patch

\* Version.__gt__
VersionGt(self, other) ==
    self.major > other.major \/ self.minor > other.minor \/ self.patch > other.patch

\* lhs < rhs, lhs > rhs and rhs < lhs are evaluated.
Compare ==
    /\ ~ordering.done
    /\ ordering' = [done |-> TRUE, lt |-> VersionLt(lhs, rhs),
                    gt |-> VersionGt(lhs, rhs), tl |-> VersionLt(rhs, lhs)]
    /\ UNCHANGED <<resolution, construction, check_versions, lhs, rhs, peer, transaction,
                   given>>

InitVersion ==
    /\ contents = DistinctContents
    /\ incoming = [n \in Nodes |-> {}]
    /\ outgoing = [n \in Nodes |-> <<>>]
    /\ rlimit = DefaultRecursionLimit
    /\ InitCall
    /\ InitRepo
    /\ InitConstruction
    /\ InitResolver
    /\ lhs \in VersionTriples
    /\ rhs \in VersionTriples
    /\ ordering = NotCompared
    /\ InitPeer
    /\ InitTransaction
    /\ InitGiven

NextVersion == Compare

SpecVersion == InitVersion /\ [][NextVersion]_vars

(***************************************************************************)
(* Resolver(check_versions) and the repositories that hold the packages    *)
(* of the graph at one version or another.                                 *)
(***************************************************************************)
\* Resolver(check_versions=flag)
ResolverNew(flag) ==
    /\ pc = "idle"
    /\ check_versions' = flag
    /\ UNCHANGED <<resolution, construction, comparison, peer, transaction, given>>

\* For a set of nodes and a version, the packages with the names of the
\* payloads of the nodes, at that version.
VersionLists ==
    {[i \in 1..Cardinality(S) |->
        MkPackage(Sorted(S)[i] + NumNodes * v, contents[Sorted(S)[i]].name, v, EmptyUrl, <<>>)] :
            S \in SUBSET Nodes, v \in Versions}

NextVersions ==
    \/ \E flag \in BOOLEAN : ResolverNew(flag)
    \/ packages = <<>> /\ \E pkgs \in VersionLists : RepoNew(pkgs)
    \/ \E root \in Nodes : Available(root)
    \/ Descend
    \/ Finish
    \/ AvailableCheck
    \/ AvailableReturn

SpecVersions == Init /\ [][NextVersions]_vars

(***************************************************************************)
(* The graph of TestCase.setUp: emacs depends on emacs-lisp, emacs-core    *)
(* and emacs-gtk, and emacs-lisp on emacs-core.  The nodes are built with  *)
(* their outgoing sets only; no incoming set is given.                     *)
(***************************************************************************)
EmacsNames == <<"emacs-core", "emacs-gtk", "emacs-lisp", "emacs">>
EmacsNodes == 1..Len(EmacsNames)

\* The node that carries the package of a name.
EmacsNode(name) == CHOOSE n \in EmacsNodes : EmacsNames[n] = name

EmacsDependencies ==
    [n \in EmacsNodes |->
        IF EmacsNames[n] = "emacs" THEN <<"emacs-lisp", "emacs-core", "emacs-gtk">>
        ELSE IF EmacsNames[n] = "emacs-lisp" THEN <<"emacs-core">>
        ELSE <<>>]

EmacsOutgoing ==
    [n \in EmacsNodes |-> {EmacsNode(EmacsDependencies[n][i]) :
                              i \in 1..Len(EmacsDependencies[n])}]

EmacsContents ==
    [n \in EmacsNodes |->
        MkPackage(n, EmacsNames[n], Versionless, EmptyUrl, EmacsDependencies[n])]

InitEmacs ==
    /\ contents = EmacsContents
    /\ incoming = [n \in EmacsNodes |-> {}]
    /\ outgoing \in {f \in [EmacsNodes -> UNION {Orders(EmacsOutgoing[n]) : n \in EmacsNodes}] :
                        \A n \in EmacsNodes : f[n] \in Orders(EmacsOutgoing[n])}
    /\ rlimit = DefaultRecursionLimit
    /\ InitCall
    /\ InitRepo
    /\ InitAside

NextEmacs ==
    \/ \E root \in EmacsNodes : Resolve(root)
    \/ \E root \in EmacsNodes : Preorder(root, "identity", DefaultLimit)
    \/ Descend
    \/ Finish

SpecEmacs == InitEmacs /\ [][NextEmacs]_vars

(***************************************************************************)
(* Package(name=..) and conforms().  A name is a string, written here as  *)
(* the sequence of its letters; None is a value of its own for version     *)
(* and url.                                                                *)
(***************************************************************************)
Letters == {"a", "b"}
NameStrings == UNION {[1..k -> Letters] : k \in 0..MaxNameLen}
VersionArgs == {NoneField} \cup Versions
UrlArgs == {NoneField} \cup Urls

\* Package.defaults
Defaults ==
    [warn |-> TRUE, version |-> Versionless, url |-> EmptyUrl, dependencies |-> <<>>]

\* the defaults overridden by the keyword arguments
Splat(defaults, kw) ==
    [k \in DOMAIN defaults \cup DOMAIN kw |->
        IF k \in DOMAIN kw THEN kw[k] ELSE defaults[k]]

\* A variant of check that asserts whatever warn is.
CheckAsserting(expression, warn) ==
    IF expression THEN "pass" ELSE "assert"

\* check(expression, message, warn): what it does with the message.
Check(expression, warn) ==
    IF warn /\ ~expression THEN "warn"
    ELSE IF expression THEN "pass" ELSE "assert"

\* None given for dependencies, which are a list otherwise.
NoneDependencies == <<NoneField>>

\* The four checks of conforms(), in order.  The argument of a check is
\* evaluated before check is called: self.name raises AttributeError when
\* the instance has no attribute name, and len(None) raises TypeError.
Checks(d) ==
    << [error |-> IF "name" \in DOMAIN d THEN NoFailure ELSE "AttributeError",
        expression |-> "name" \in DOMAIN d /\ Len(d.name) > 0,
        message |-> "no name?"],
       [error |-> IF d.dependencies = NoneDependencies THEN "TypeError" ELSE NoFailure,
        expression |-> d.dependencies # NoneDependencies /\ Len(d.dependencies) >= 0,
        message |-> "no dependencies?"],
       [error |-> NoFailure, expression |-> d.version # NoneField, message |-> "no version?"],
       [error |-> NoFailure, expression |-> d.url # NoneField, message |-> "no url?"] >>

\* conforms(): the checks run one after the other; a warning is recorded and
\* the next check runs, an AssertionError ends the run, and so does an error
\* raised by the argument of a check.
RECURSIVE RunChecks(_, _, _)
RunChecks(cs, warn, w) ==
    IF cs = <<>>
    THEN [warned |-> w, failure |-> NoFailure]
    ELSE IF Head(cs).error # NoFailure
    THEN [warned |-> w, failure |-> Head(cs).error]
    ELSE LET outcome == Check(Head(cs).expression, warn)
         IN  IF outcome = "assert"
             THEN [warned |-> w, failure |-> Head(cs).message]
             ELSE RunChecks(Tail(cs), warn,
                            IF outcome = "warn" THEN Append(w, Head(cs).message) ELSE w)

Conforms(d) == RunChecks(Checks(d), d.warn, <<>>)

\* Package(name=..): no object is produced when conforms() raises.
PackageNew(kw) ==
    /\ kwargs = NoKwargs
    /\ kwargs' = kw
    /\ LET d == Splat(Defaults, kw)
           c == Conforms(d)
       IN  /\ warned' = c.warned
           /\ failure' = c.failure
           /\ made' = IF c.failure = NoFailure THEN d ELSE NoInstance
    /\ UNCHANGED <<resolution, check_versions, comparison, peer, transaction, given>>

\* Package.make(name=..)
PackageMake(kw) == PackageNew(kw)

\* The keyword arguments: name is always given, each other key may be left
\* out.
Restrict(f, K) == [k \in K |-> f[k]]

KwargsPool ==
    {Restrict(f, K) :
        f \in [name : NameStrings, version : VersionArgs, url : UrlArgs,
               dependencies : DependencyLists, warn : BOOLEAN],
        K \in {S \in SUBSET {"name", "version", "url", "dependencies", "warn"} :
                  "name" \in S}}

NextPackage ==
    \/ kwargs = NoKwargs /\ \E kw \in KwargsPool : PackageNew(kw)
    \/ kwargs = NoKwargs /\ \E kw \in KwargsPool : PackageMake(kw)

SpecPackage == InitRepoSpec /\ [][NextPackage]_vars

\* The keyword arguments when name may be left out as well and None may be
\* given for dependencies.
DependencyArgs == {NoneDependencies} \cup DependencyLists

AnyKwargsPool ==
    {Restrict(f, K) :
        f \in [name : NameStrings, version : VersionArgs, url : UrlArgs,
               dependencies : DependencyArgs, warn : BOOLEAN],
        K \in SUBSET {"name", "version", "url", "dependencies", "warn"} \ {{}}}

NextAnyPackage ==
    \/ kwargs = NoKwargs /\ \E kw \in AnyKwargsPool : PackageNew(kw)
    \/ kwargs = NoKwargs /\ \E kw \in AnyKwargsPool : PackageMake(kw)

SpecAnyPackage == InitRepoSpec /\ [][NextAnyPackage]_vars

(***************************************************************************)
(* _postorder of Node.postorder as a function: the seen list and the       *)
(* results list it leaves when called on node s with the lists sn and res. *)
(***************************************************************************)
RECURSIVE PostWalk(_, _, _, _), PostLoop(_, _, _, _)
PostWalk(s, visitor, sn, res) ==
    IF Unseen(contents[s], sn)
    THEN LET after == PostLoop(s, visitor, 1, [seen |-> Append(sn, contents[s]), results |-> res])
         IN  [seen |-> after.seen,
              results |-> Append(after.results, Visit(visitor, contents[s]))]
    ELSE [seen |-> sn, results |-> res]

\* `for o in s.outgoing: _postorder(o, visitor, seen, results)`, from the
\* i-th element on.
PostLoop(s, visitor, i, acc) ==
    IF i > Len(outgoing[s])
    THEN acc
    ELSE PostLoop(s, visitor, i + 1, PostWalk(outgoing[s][i], visitor, acc.seen, acc.results))

\* root.postorder(visitor)
PostorderOf(root, visitor) == PostWalk(root, visitor, <<>>, <<>>).results

\* The frame-by-frame execution returns what the function returns.
StepsAgree ==
    (pc = "returned" /\ call.caller = "postorder") =>
        retval.val = PostorderOf(call.root, call.visitor)

(***************************************************************************)
(* Graph notions the properties are stated with.                           *)
(***************************************************************************)
Succ(n) == Range(outgoing[n])

RECURSIVE Closure(_)
Closure(S) ==
    LET T == S \cup UNION {Succ(n) : n \in S}
    IN  IF T = S THEN S ELSE Closure(T)

\* The nodes reachable from n over outgoing edges, n included.
Reach(n) == Closure({n})

\* The nodes reachable from n over at least one edge.
ReachPlus(n) == IF Succ(n) = {} THEN {} ELSE Closure(Succ(n))

Acyclic == \A n \in Nodes : n \notin ReachPlus(n)

\* a occurs in q, b occurs in q, and every a is at a smaller index than every b.
Precedes(q, a, b) ==
    /\ \E i \in 1..Len(q) : PyEq(q[i], a)
    /\ \E j \in 1..Len(q) : PyEq(q[j], b)
    /\ \A i, j \in 1..Len(q) : PyEq(q[i], a) /\ PyEq(q[j], b) => i < j

\* Resolver.resolve(call.root) has returned retval.val.
Resolved ==
    /\ pc = "returned"
    /\ call.caller = "postorder"
    /\ call.visitor = "identity"

(***************************************************************************)
(* C1: on an acyclic graph with pairwise distinct payloads, for every edge *)
(* U->V between nodes reachable from the root, the payload of V is at a    *)
(* strictly smaller index than the payload of U in resolve(root), for      *)
(* every iteration order of the outgoing sets.                             *)
(***************************************************************************)
C1_DependencyFirstAcyclic ==
    (Resolved /\ Acyclic) =>
        \A u \in Reach(call.root) : \A v \in Succ(u) :
            Precedes(retval.val, contents[v], contents[u])

\* resolve has returned on an acyclic graph in which a node is reached
\* over two edges and every node is reachable from the root.
C1_Witness ==
    /\ Resolved
    /\ Acyclic
    /\ Reach(call.root) = Nodes
    /\ \E v \in Nodes : Cardinality(incoming[v]) >= 2

(***************************************************************************)
(* C2, as stated: for every graph, cyclic graphs and self-loops included,  *)
(* and every edge A->B between nodes reachable from the root, the index of *)
(* B is strictly smaller than the index of A in resolve(root).             *)
(***************************************************************************)
C2_DependencyFirstEveryGraph ==
    Resolved =>
        \A u \in Reach(call.root) : \A v \in Succ(u) :
            Precedes(retval.val, contents[v], contents[u])

(***************************************************************************)
(* C2, amended: for every graph with pairwise distinct payloads and every  *)
(* edge A->B between nodes reachable from the root that lies on no cycle   *)
(* (A is not reachable from B), the index of B is strictly smaller than    *)
(* the index of A in resolve(root).                                        *)
(***************************************************************************)
C2_DependencyFirstOffCycle ==
    Resolved =>
        \A u \in Reach(call.root) : \A v \in Succ(u) :
            u \notin Reach(v) => Precedes(retval.val, contents[v], contents[u])

\* resolve has returned on a graph with a cycle reachable from the root and
\* an edge, reachable from the root, that lies on no cycle.
C2_Witness ==
    /\ Resolved
    /\ \E n \in Reach(call.root) : n \in ReachPlus(n)
    /\ \E u \in Reach(call.root) : \E v \in Succ(u) : u \notin Reach(v)

(***************************************************************************)
(* C3: the output of resolve(root) holds no two equal payloads, whatever   *)
(* the graph (a node may be reachable over several paths, and two nodes    *)
(* may carry the same payload); when the payloads of the nodes are         *)
(* pairwise distinct it holds the payload of every node reachable from     *)
(* the root.                                                               *)
(***************************************************************************)
DistinctPayloads == \A m, n \in Nodes : PyEq(contents[m], contents[n]) => m = n

C3_ExactlyOnce ==
    Resolved =>
        /\ \A i, j \in 1..Len(retval.val) : PyEq(retval.val[i], retval.val[j]) => i = j
        /\ DistinctPayloads =>
              \A n \in Reach(call.root) :
                  \E i \in 1..Len(retval.val) : PyEq(retval.val[i], contents[n])

\* resolve has returned on a graph in which a node other than the root is
\* reached over two edges and every node is reachable.
C3_Witness ==
    /\ Resolved
    /\ DistinctPayloads
    /\ Reach(call.root) = Nodes
    /\ \E v \in Nodes \ {call.root} : Cardinality(incoming[v]) >= 2
    /\ Len(retval.val) = NumNodes

(***************************************************************************)
(* C7, as stated: the list of the values pulled from                       *)
(* root.postorder_yield(visitor) equals root.postorder(visitor), for every *)
(* graph, root and visitor.                                                *)
(***************************************************************************)
C7_YieldEqualsPostorder ==
    (pc = "returned" /\ call.caller = "postorder_yield") =>
        retval.val = PostorderOf(call.root, call.visitor)

(***************************************************************************)
(* C9, as stated: two distinct Package objects with the same name and      *)
(* otherwise equal fields are the same package for seen-tracking, so       *)
(* resolve(root) holds that package only once.                             *)
(***************************************************************************)
SameFields(a, b) ==
    /\ a.name = b.name
    /\ a.version = b.version
    /\ a.url = b.url
    /\ a.dependencies = b.dependencies

C9_SameNameOnce ==
    Resolved =>
        \A i, j \in 1..Len(retval.val) : SameFields(retval.val[i], retval.val[j]) => i = j

(***************************************************************************)
(* C4: preorder, postorder and resolve terminate on every finite graph,    *)
(* cyclic or not: no node is entered while a call for it is active, and    *)
(* every started call returns, and none raises.  On the two-node cycle     *)
(* X->Y->X resolve(X) returns a sequence that holds X and Y exactly once   *)
(* each.                                                                   *)
(***************************************************************************)
NoRevisit == \A i, j \in 1..Len(stack) : stack[i].node = stack[j].node => i = j

Occurrences(q, c) == Cardinality({i \in 1..Len(q) : PyEq(q[i], c)})

TwoCycle(x, y) == x # y /\ Succ(x) = {y} /\ Succ(y) = {x}

TwoCycleResolved ==
    \A x, y \in Nodes :
        (Resolved /\ call.root = x /\ TwoCycle(x, y)) =>
            /\ Len(retval.val) = 2
            /\ Occurrences(retval.val, contents[x]) = 1
            /\ Occurrences(retval.val, contents[y]) = 1

C4_Termination ==
    /\ [](NoRevisit /\ pc # "raised" /\ TwoCycleResolved)
    /\ (pc = "run") ~> (pc = "returned")

\* resolve(X) has returned on a two-node cycle X->Y->X.
C4_Witness == \E x, y \in Nodes : Resolved /\ call.root = x /\ TwoCycle(x, y)

(***************************************************************************)
(* C5, as stated: Resolver.available(root, repository) returns the set (or *)
(* list) of the names of the packages of resolve(root) that are not in the *)
(* repository's index; it is empty iff every resolved name is present.     *)
(***************************************************************************)
AvailableReturned == pc = "returned" /\ call.caller = "available"

MissingNames == {results[i].name : i \in {j \in 1..Len(results) : ~Contains(index, results[j])}}

C5_AvailableReportsMissing ==
    AvailableReturned =>
        /\ retval.kind \in {"set", "list"}
        /\ (IF retval.kind = "list" THEN Range(retval.val) ELSE retval.val) = MissingNames

(***************************************************************************)
(* C6, as stated: during one call of Resolver.available the membership     *)
(* check is performed for every package of resolve(root), also for those   *)
(* that come after the first missing one.                                  *)
(***************************************************************************)
C6_EveryPackageChecked ==
    AvailableReturned =>
        \A i \in 1..Len(results) : \E j \in 1..Len(checked) : PyEq(checked[j], results[i])

(***************************************************************************)
(* C8: a call of preorder/postorder with limit L runs under the recursion  *)
(* limit L when L is greater than the limit at the call, and under the     *)
(* limit at the call otherwise; when the call has returned or raised, the  *)
(* recursion limit is what it was at the call.                             *)
(***************************************************************************)
C8_ScopedLimit ==
    /\ pc = "run" =>
          rlimit = (IF call.limit > call.before THEN call.limit ELSE call.before)
    /\ pc \in {"returned", "raised"} => rlimit = call.before

\* A traversal that raised the limit has itself raised RecursionError.
C8_Witness ==
    /\ pc = "raised"
    /\ call.limit > call.before
    /\ Len(seen) >= 2

(***************************************************************************)
(* C10: `P in Repo(L)` is true iff some package of L has the name of P,    *)
(* whatever the version, url and dependencies of P; a repository built     *)
(* from no packages contains nothing.                                      *)
(***************************************************************************)
Asked == Len(checked) = 1 /\ call = NoCall

C10_MembershipByName ==
    Asked => (answer <=> \E i \in 1..Len(packages) : packages[i].name = checked[1].name)

\* The repository was asked about a package it does not hold, whose name
\* it holds at another version, and answered that it contains it.
C10_Witness ==
    /\ Asked
    /\ answer
    /\ \A i \in 1..Len(packages) : packages[i] # checked[1]
    /\ \E i \in 1..Len(packages) :
          /\ packages[i].name = checked[1].name
          /\ packages[i].version # checked[1].version

(***************************************************************************)
(* C11.  After Repo(packages) the index holds, for each name that occurs   *)
(* in the list, the last package of the list with that name, and holds no  *)
(* name that does not occur in the list.                                   *)
(***************************************************************************)
Occurs(n) == \E i \in 1..Len(packages) : packages[i].name = n

LastOf(n) ==
    packages[CHOOSE i \in 1..Len(packages) :
                /\ packages[i].name = n
                /\ \A j \in 1..Len(packages) : packages[j].name = n => j <= i]

C11_IndexLastWins ==
    \A n \in Names :
        IF Occurs(n) THEN Get(index, n) = LastOf(n) ELSE ~Truthy(Get(index, n))

\* A repository built from a list that names one package twice, at two
\* versions: the index holds the second.
C11_Witness ==
    /\ Len(packages) = 2
    /\ packages[1].name = packages[2].name
    /\ packages[1] # packages[2]
    /\ Get(index, packages[1].name) = packages[2]

(***************************************************************************)
(* C12.  A Package whose name is empty, whose version is None or whose url *)
(* is None is refused with an error when warn is False, and is constructed *)
(* with a warning when warn is True (the default); a Package that breaks   *)
(* none of the three rules is constructed without error and without        *)
(* warning in both modes.                                                  *)
(***************************************************************************)
Constructing == kwargs # NoKwargs

\* The value the constructor works with for a key: the one given, or else
\* the default of the key.
Given(k, default) == IF k \in DOMAIN kwargs THEN kwargs[k] ELSE default

Malformed ==
    \/ kwargs.name = <<>>
    \/ Given("version", Versionless) = NoneField
    \/ Given("url", EmptyUrl) = NoneField

Permissive == Given("warn", TRUE)

Produced ==
    /\ failure = NoFailure
    /\ DOMAIN made = {"name", "version", "url", "dependencies", "warn"}
    /\ made.name = kwargs.name
    /\ made.version = Given("version", Versionless)
    /\ made.url = Given("url", EmptyUrl)
    /\ made.dependencies = Given("dependencies", <<>>)

EmacsResolved == Resolved /\ call.root = EmacsNode("emacs")

C13_EmacsScenario ==
    EmacsResolved =>
        /\ Len(retval.val) = 4
        /\ Precedes(retval.val, contents[EmacsNode("emacs-core")],
                                contents[EmacsNode("emacs-lisp")])
        /\ retval.val[Len(retval.val)] = contents[EmacsNode("emacs")]

\* resolve(emacs) has returned, with emacs-gtk between emacs-core and
\* emacs-lisp: emacs-core was reached before emacs-lisp was iterated.
C13_Witness ==
    /\ EmacsResolved
    /\ Len(retval.val) = 4
    /\ retval.val[1].name = "emacs-core"
    /\ retval.val[2].name = "emacs-gtk"
    /\ retval.val[3].name = "emacs-lisp"

(***************************************************************************)
(* C14.  A node without outgoing edges resolves to the list that holds     *)
(* its own payload and nothing else, and its len is 1; so does a node      *)
(* built without contents.                                                 *)
(***************************************************************************)
Leaf(n) == outgoing[n] = <<>>

LenReturned == pc = "returned" /\ call.caller = "len"

C14_LeafCase ==
    /\ (Resolved /\ Leaf(call.root)) => retval.val = <<contents[call.root]>>
    /\ (LenReturned /\ Leaf(call.root)) => retval.val = 1

\* len of a leaf built without contents has returned.
C14_Witness ==
    /\ LenReturned
    /\ Leaf(call.root)
    /\ contents[call.root] = NonePackage
    /\ retval.val = 1

\* resolve of a leaf built without contents has returned.
C14_WitnessResolve ==
    /\ Resolved
    /\ Leaf(call.root)
    /\ contents[call.root] = NonePackage
    /\ retval.val = <<NonePackage>>

(***************************************************************************)
(* C15.  len(root) is the number of distinct payloads of the nodes         *)
(* reachable from root, and so is the length of root.preorder(v) and of    *)
(* root.postorder(v) for every visitor v; preorder and postorder visit     *)
(* the same set of payloads.                                               *)
(***************************************************************************)
\* The payloads of the nodes reachable from n, one for each class of equal
\* payloads (payloads are equal when they are the same object).
ReachablePayloads(n) == {contents[m].oid : m \in Reach(n)}

ListReturned == pc = "returned" /\ call.caller \in {"preorder", "postorder"}

C15_SizeCountsReachablePayloads ==
    /\ LenReturned => retval.val = Cardinality(ReachablePayloads(call.root))
    /\ ListReturned =>
          /\ Len(retval.val) = Cardinality(ReachablePayloads(call.root))
          /\ {retval.val[i].oid : i \in 1..Len(retval.val)} = ReachablePayloads(call.root)

\* What the traversals do agree on: the payloads entered by the call, which
\* are the same for len, preorder and postorder.
C15_SizeCountsSeen ==
    /\ LenReturned => retval.val = Len(seen)
    /\ ListReturned =>
          /\ Len(retval.val) = Len(seen)
          /\ {retval.val[i].oid : i \in 1..Len(retval.val)} = {seen[i].oid : i \in 1..Len(seen)}
    /\ (LenReturned \/ ListReturned) =>
          Len(seen) = Len(PostorderOf(call.root, "identity"))

(***************************************************************************)
(* C16.  With pairwise distinct payloads, root.preorder(identity) starts   *)
(* with the payload of the root, and every later element is the payload    *)
(* of a node that has an edge from a node whose payload is earlier in the  *)
(* list.                                                                   *)
(***************************************************************************)
PreorderReturned ==
    /\ pc = "returned"
    /\ call.caller = "preorder"
    /\ call.visitor = "identity"

C16_PreorderOrder ==
    (PreorderReturned /\ DistinctPayloads) =>
        /\ Len(retval.val) >= 1
        /\ retval.val[1] = contents[call.root]
        /\ \A j \in 2..Len(retval.val) :
              \E i \in 1..(j - 1) : \E u \in Nodes : \E v \in Succ(u) :
                  /\ contents[u] = retval.val[i]
                  /\ contents[v] = retval.val[j]

\* preorder has returned three payloads on a graph where the third node is
\* reached through the second and not from the root.
C16_Witness ==
    /\ PreorderReturned
    /\ DistinctPayloads
    /\ Len(retval.val) = 3
    /\ \A v \in Succ(call.root) : contents[v] # retval.val[3]
    /\ \E u \in Nodes : \E v \in Succ(u) :
          contents[u] = retval.val[2] /\ contents[v] = retval.val[3]

(***************************************************************************)
(* C17.  With check_versions enabled, a resolved package counts as         *)
(* available only if the repository holds a package of its name at exactly *)
(* its version; with check_versions disabled only the name is compared.    *)
(***************************************************************************)
\* available has looked a package up; LastChecked is the package.
Looked == call.caller = "available" /\ checked # <<>>

LastChecked == checked[Len(checked)]

HoldsName(p) == \E i \in 1..Len(packages) : packages[i].name = p.name

HoldsNameAtVersion(p) ==
    \E i \in 1..Len(packages) :
        packages[i].name = p.name /\ packages[i].version = p.version

C17_CheckVersionsGoverns ==
    Looked =>
        IF check_versions
        THEN answer <=> HoldsNameAtVersion(LastChecked)
        ELSE answer <=> HoldsName(LastChecked)

\* What the code does: the name decides, whatever check_versions is.
C17_NameDecides == Looked => (answer <=> HoldsName(LastChecked))

(***************************************************************************)
(* C18.  a < b exactly when (a.major, a.minor, a.patch) is                 *)
(* lexicographically less than (b.major, b.minor, b.patch), a > b exactly  *)
(* when it is lexicographically greater, and a < b and b < a never both    *)
(* hold.                                                                   *)
(***************************************************************************)
LexLess(a, b) ==
    \/ a.major < b.major
    \/ a.major = b.major /\ a.minor < b.minor
    \/ a.major = b.major /\ a.minor = b.minor /\ a.patch < b.patch

C18_LexicographicOrder ==
    ordering.done =>
        /\ ordering.lt <=> LexLess(lhs, rhs)
        /\ ordering.gt <=> LexLess(rhs, lhs)
        /\ ~(ordering.lt /\ ordering.tl)

\* What does hold of the code: an order that is lexicographically less is
\* reported as less, and a greater one as greater.
C18_LexLessIsLess ==
    ordering.done =>
        /\ LexLess(lhs, rhs) => ordering.lt
        /\ LexLess(rhs, lhs) => ordering.gt

(***************************************************************************)
(* C19.  Two callers of resolve, one after the other or interleaved step   *)
(* by step, on the same graph: each call returns the list it returns when  *)
(* it runs alone with the same iteration order of the outgoing sets.       *)
(***************************************************************************)
PeerResolved ==
    /\ peer.pc = "returned"
    /\ peer.call.caller = "postorder"
    /\ peer.call.visitor = "identity"

C19_CallsIndependent ==
    /\ Resolved => retval.val = PostorderOf(call.root, "identity")
    /\ PeerResolved => peer.retval.val = PostorderOf(peer.call.root, "identity")

\* A call has returned that started while the call of the other caller was
\* under way on an overlapping part of the graph, and that one is still
\* under way.
C19_Witness ==
    /\ Resolved
    /\ peer.pc = "run"
    /\ Len(peer.seen) >= 2
    /\ Len(retval.val) >= 2
    /\ \E i \in 1..Len(retval.val) : InList(retval.val[i], peer.seen)

(***************************************************************************)
(* C20.  No step of preorder, postorder, postorder_yield, len, resolve or  *)
(* available changes the contents, the incoming set or the outgoing set    *)
(* of a node, or the index of the repository.                              *)
(***************************************************************************)
\* A step of a call: it starts a call or is taken within one.
CallStep == pc # "idle" \/ pc' # "idle"

C20_ReadOnly ==
    [][CallStep => UNCHANGED <<contents, incoming, outgoing, packages, index>>]_vars

\* available has returned after looking packages up in a repository that
\* holds some, on a graph with an edge.
C20_Witness ==
    /\ AvailableReturned
    /\ Len(checked) >= 2
    /\ packages # <<>>
    /\ \E n \in Nodes : outgoing[n] # <<>>

(***************************************************************************)
(* C21.  A node whose payload equals the payload of a node visited before  *)
(* it is skipped: its payload is not emitted again and its outgoing edges  *)
(* are not followed, so a node that is reachable only through it is        *)
(* absent from what preorder, postorder and resolve return.                *)
(***************************************************************************)
EmittedPayloads == {retval.val[i].oid : i \in 1..Len(retval.val)}

\* V can be the set of the nodes the call visited: it holds the root, no
\* two nodes of equal payload, every node of it but the root has an edge
\* from a node of it, and the call emitted the payloads of its nodes.
VisitedSet(V) ==
    /\ call.root \in V
    /\ \A m, n \in V : PyEq(contents[m], contents[n]) => m = n
    /\ \A v \in V \ {call.root} : \E u \in V : v \in Succ(u)
    /\ EmittedPayloads = {contents[v].oid : v \in V}

C21_SkippedByPayload ==
    ListReturned =>
        /\ \A i, j \in 1..Len(retval.val) :
              retval.val[i].oid = retval.val[j].oid => i = j
        /\ \E V \in SUBSET Nodes : VisitedSet(V)

\* The nodes reachable from the root without going through a node, other
\* than the root, whose payload equals the root's.
RECURSIVE ClosureAvoiding(_, _)
ClosureAvoiding(S, avoid) ==
    LET T == S \cup (UNION {Succ(n) : n \in S} \ avoid)
    IN  IF T = S THEN S ELSE ClosureAvoiding(T, avoid)

RootTwins == {n \in Nodes \ {call.root} : PyEq(contents[n], contents[call.root])}

\* A traversal has returned without the payload of a node that is
\* reachable from the root, but only through a node that carries the
\* payload of the root.
C21_Witness ==
    /\ ListReturned
    /\ \E m \in Reach(call.root) :
          /\ m \notin ClosureAvoiding({call.root}, RootTwins)
          /\ m \notin RootTwins
          /\ contents[m].oid \notin EmittedPayloads

(***************************************************************************)
(* C22.  In `with Transaction(o)`, when the body raises, o.rollback() is   *)
(* called exactly once, the object the transaction wraps has the state o   *)
(* had when the block was entered, nested state included, and the          *)
(* exception propagates; when the body completes, rollback is not called.  *)
(***************************************************************************)
C22_TransactionScope ==
    txn.arg.kind = "object" =>
        /\ txn.phase = "propagated" =>
              /\ txn.rollbacks = 1
              /\ Deep(txn.o, heap) = entry
        /\ txn.phase = "completed" => txn.rollbacks = 0

\* What holds of the code: the attributes of the object are those of entry,
\* the list of `items` being the same list as at entry, whatever it holds.
C22_AttributesRestored ==
    txn.arg.kind = "object" =>
        /\ txn.phase = "propagated" =>
              /\ txn.rollbacks = 1
              /\ txn.o.value = entry.value
              /\ txn.o.items = txn.arg.items
        /\ txn.phase = "completed" => txn.rollbacks = 0

(***************************************************************************)
(* C23.  Transaction(o) raises ValueError when o is None and makes a       *)
(* transaction for every other object, 0 and the empty list included.      *)
(***************************************************************************)
C23_RejectsExactlyNone ==
    txn.phase # "none" => (txn.phase = "ValueError" <=> txn.arg = NoneObject)

\* What holds of the code: the objects rejected are the falsy ones.
C23_RejectsFalsy ==
    txn.phase # "none" => (txn.phase = "ValueError" <=> ~TruthyObject(txn.arg, heap))

(***************************************************************************)
(* C24.  With warn=True, given or by default, the constructor of Package   *)
(* never raises: whether the name is non-empty, empty or not given, the    *)
(* version and the url a value or None, and the dependencies a list or     *)
(* None, it returns a Package, and each rule broken is a warning only.     *)
(***************************************************************************)
C24_PermissiveNeverRaises ==
    (Constructing /\ Permissive) => (failure = NoFailure /\ made # NoInstance)

\* What holds of the code: in permissive mode the constructor raises
\* exactly when the name is not given or the dependencies are None, and
\* never an AssertionError.
C24_PermissiveRaises ==
    (Constructing /\ Permissive) =>
        /\ failure = "AttributeError" <=> "name" \notin DOMAIN kwargs
        /\ failure = "TypeError" <=>
              ("name" \in DOMAIN kwargs /\ Given("dependencies", <<>>) = NoneDependencies)
        /\ failure \in {NoFailure, "AttributeError", "TypeError"}
        /\ failure = NoFailure <=> made # NoInstance

(***************************************************************************)
(* C25.  When two traversals, each with a limit above the recursion limit  *)
(* R of the process, run concurrently in the process, the recursion limit  *)
(* is R again once both have finished, however their steps interleave.     *)
(***************************************************************************)
BothFinished == pc = "returned" /\ peer.pc = "returned"

C25_LimitRestoredAfterBoth == BothFinished => rlimit = LowLimit

\* What holds of the code: each traversal that entered alone, while the
\* limit was R, sets the limit to R when it leaves, and the limit that is
\* left after both is R or the limit of one of the two.
C25_LimitLeft ==
    BothFinished =>
        /\ rlimit \in {LowLimit, call.limit, peer.call.limit}
        /\ (call.before = LowLimit /\ peer.call.before = LowLimit) =>
              rlimit = LowLimit

(***************************************************************************)
(* C26.  For every list S passed as `seen` to postorder or                 *)
(* postorder_yield, the empty list included: the payloads in S are not     *)
(* emitted; after the call S holds its previous elements followed by the   *)
(* payloads the call visited; and a later traversal given the same S emits *)
(* none of the payloads an earlier one emitted.                            *)
(***************************************************************************)
SeenReturned == pc = "returned" /\ given.passed

IsPrefix(q, r) == Len(q) <= Len(r) /\ SubSeq(r, 1, Len(q)) = q

SeenContract ==
    /\ PayloadsOf(retval.val) \cap PayloadsOf(given.prior) = {}
    /\ IsPrefix(given.prior, CallerList)
    /\ CallerList = seen
    /\ PayloadsOf(retval.val) \subseteq PayloadsOf(CallerList)
    /\ PayloadsOf(retval.val) \cap given.emitted = {}

C26_CallerSeenList == SeenReturned => SeenContract

\* What holds of the code: the same for every list S that is not empty.
C26_NonEmptySeenList == (SeenReturned /\ given.prior # <<>>) => SeenContract

\* A second call with a list that was not empty has returned, and there was
\* something left for it to emit.
C26_NonEmptyCase ==
    /\ SeenReturned
    /\ given.prior # <<>>
    /\ given.emitted # {}
    /\ retval.val # <<>>

====
